---------------------------- MODULE Spec2Model ----------------------------
(***************************************************************************)
(* A model of the two notebooks of 5_Gate_Model_Quantum_Computing_Qiskit:  *)
(*                                                                         *)
(*   "gate"     defines the two-qubit circuit H(q0); CX(q0,q1), measures   *)
(*              it, runs it on the qasm simulator and assembles it;        *)
(*   "cluster"  generates two classes of points, builds the matrix w of    *)
(*              pairwise distances, sets up QAOA for the max-cut of w and  *)
(*              samples the same problem with a simulated annealer.        *)
(*                                                                         *)
(* A kernel runs one notebook, cell after cell; nb says which one and pc   *)
(* is the statement it executes next.  Real numbers are fixed point:       *)
(* coordinates and distances are integers in units of 0.05, amplitudes are *)
(* integers over a stated power of sqrt(2).                                *)
(***************************************************************************)
EXTENDS Integers, Sequences, FiniteSets, TLC

VARIABLES
    nb,                \* the notebook this kernel runs: "gate", "cluster" or "ising"
    pc,                \* the statement executed next
    bound,             \* the names bound in the kernel's namespace
    ran,               \* the cells started so far, in the order they started
    out,               \* what the cells have printed or displayed, in order
    circuit,           \* gate: circuit.data, the instructions appended so far
    counts,            \* gate: outcome -> number of shots that gave it
    shots_done,        \* gate: shots the simulator has run
    compiled_circuit,  \* gate: the assembled experiment's instruction list
    rng,               \* cluster: the draws np.random will hand out next
    n_instances,       \* cluster
    class_1,           \* cluster
    class_2,           \* cluster
    data,              \* cluster
    w,                 \* cluster: the distance matrix; ising: any weight matrix
    it,                \* cluster: position of the itertools.product iterator
    J,                 \* cluster: couplings (i, j) -> weight
    h,                 \* cluster: on-site fields i -> 0
    model,             \* cluster: the BinaryQuadraticModel
    response,          \* cluster: the sampler's reads, in read order
    rows,              \* cluster: response.data() as the print loop iterated it
    sigma,             \* ising: a spin assignment
    cut,               \* ising: the cost of the cut sigma induces
    ising,             \* ising: four times the Ising expression of that cost
    raised,            \* the statement whose call raised, "" while none has
    assigned           \* cluster: the entries (i, j) of w the loop has assigned, in order

vars == <<nb, pc, bound, ran, out, circuit, counts, shots_done, compiled_circuit,
          rng, n_instances, class_1, class_2, data, w, it, J, h, model,
          response, rows, sigma, cut, ising, raised, assigned>>

gateVars == <<circuit, counts, shots_done, compiled_circuit>>
clusterVars == <<rng, n_instances, class_1, class_2, data, w, it, J, h, model,
                 response, rows>>
isingVars == <<sigma, cut, ising>>

-----------------------------------------------------------------------------
(* Bounds and program constants *)

\* shots = 100 in execute(circuit, backend, shots = 100)
Shots == 100

\* n_instances = 4
NInstances == 4

\* np.random.rand(n, 3): three coordinates per instance
Dim == 3

\* rand()/5 lies in [0, 0.2): fewer than 4 units of 0.05
RandUnits == 4

\* The streams of draws explored have at most one draw above 0, of at most
\* MaxNoise units.
MaxNoise == 1

\* The sampler's num_reads (10 in the source) is explored up to MaxReads reads.
MaxReads == 2

\* Entries of the weight matrices the cut identity is evaluated on: 0..MaxWeight
MaxWeight == 2

-----------------------------------------------------------------------------
(* Helpers *)

Min(a, b) == IF a < b THEN a ELSE b
Max(a, b) == IF a < b THEN b ELSE a

RECURSIVE SumOver(_, _)
\* The sum of f[x] over the finite set S.
SumOver(f, S) ==
    IF S = {} THEN 0
    ELSE LET x == CHOOSE y \in S : TRUE
         IN  f[x] + SumOver(f, S \ {x})

RECURSIVE ISqrtFrom(_, _)
ISqrtFrom(n, r) == IF (r + 1) * (r + 1) > n THEN r ELSE ISqrtFrom(n, r + 1)
\* The square root, rounded down to the fixed-point grid.
ISqrt(n) == ISqrtFrom(n, 0)

Range(s) == {s[k] : k \in 1..Len(s)}


-----------------------------------------------------------------------------
(* The kernel: cells, statements and the namespace *)

\* The cell a statement belongs to (the cell's execution_count).
CellOf(l) ==
    CASE l = "g1" -> 1
      [] l = "g2" -> 2
      [] l \in {"g3", "g3_shot"} -> 3
      [] l = "g4" -> 4
      [] l = "k1" -> 1
      [] l \in {"k2", "k2_loop"} -> 2
      [] l = "k3" -> 3
      [] l = "k4" -> 4
      [] l = "k5" -> 5
      [] l \in {"k6", "k6_run", "k6_sol"} -> 6
      [] l \in {"k7", "k7_sample", "k7_print"} -> 7
      [] OTHER -> 0

\* The code cells of a notebook in document order.
CellOrder(n) ==
    CASE n = "gate" -> <<1, 2, 3, 4>>
      [] n = "cluster" -> <<1, 2, 3, 4, 5, 6, 7>>
      [] OTHER -> <<>>

\* Reads with cell 4 of "gate" naming a backend no cell binds.
ReadsMisnamed(l) ==
    IF l = "g4" THEN {"circuit", "backend_sim"} ELSE {}

\* The names a statement reads that it has not bound itself.
Reads(l) ==
    CASE l = "g1" -> {}
      [] l = "g2" -> {"circuit", "q", "c", "circuit_drawer"}
      [] l = "g3" -> {"Aer", "execute", "circuit"}
      [] l = "g3_shot" -> {"plot_histogram", "job", "circuit"}
      [] l = "g4" -> {"circuit", "backend"}
      [] l = "k1" -> {}
      [] l = "k2" -> {"np", "n_instances"}
      [] l = "k2_loop" -> {"itertools", "n_instances", "np", "data", "w"}
      [] l = "k3" -> {"itertools", "n_instances"}
      [] l = "k4" -> {}
      [] l = "k5" -> {"max_cut", "w", "COBYLA", "QAOA"}
      [] l = "k6" -> {"get_aer_backend", "QuantumInstance"}
      [] l = "k6_run" -> {"qaoa", "quantum_instance"}
      [] l = "k6_sol" -> {"max_cut", "result", "offset", "w"}
      [] l = "k7" -> {"n_instances", "w"}
      [] l = "k7_sample" -> {"sampler", "model"}
      [] l = "k7_print" -> {"response"}
      [] OTHER -> {}

\* The names a statement binds.
Binds(l) ==
    CASE l = "g1" -> {"QuantumCircuit", "ClassicalRegister", "QuantumRegister",
                      "execute", "Aer", "circuit_drawer", "plot_histogram",
                      "q", "c", "circuit"}
      [] l = "g3" -> {"backend", "job"}
      [] l = "g4" -> {"assemble", "compiled_circuit"}
      [] l = "k1" -> {"np", "plt", "Axes3D", "n_instances", "class_1", "class_2",
                      "data", "colors", "fig", "ax"}
      [] l = "k2" -> {"itertools", "w"}
      [] l = "k2_loop" -> {"i", "j"}
      [] l = "k4" -> {"get_aer_backend", "QuantumInstance", "QAOA", "COBYLA",
                      "max_cut"}
      [] l = "k5" -> {"qubit_operators", "offset", "p", "optimizer", "qaoa"}
      [] l = "k6" -> {"backend", "quantum_instance"}
      [] l = "k6_run" -> {"result"}
      [] l = "k6_sol" -> {"x", "graph_solution"}
      [] l = "k7" -> {"dimod", "J", "h", "i", "j", "model", "sampler"}
      [] l = "k7_sample" -> {"response"}
      [] l = "k7_print" -> {"solution"}
      [] OTHER -> {}

\* The statement at pc has run: its names are bound and control moves to next.
Goto(next) ==
    /\ pc' = next
    /\ bound' = bound \cup Binds(pc)
    /\ ran' = IF Len(ran) > 0 /\ ran[Len(ran)] = CellOf(pc)
              THEN ran ELSE Append(ran, CellOf(pc))

\* The statement starts with a call into a library (an import included).  All
\* do but the print loop of cell 7, which starts with print("Energy of samples:").
StartsWithLibraryCall(l) == CellOf(l) # 0 /\ l # "k7_print"

\* Raise with the exception swallowed: the error is noted and the cell goes on.
RaiseCaught ==
    /\ nb \in {"gate", "cluster"} /\ raised = "" /\ StartsWithLibraryCall(pc)
    /\ raised' = pc
    /\ UNCHANGED <<nb, pc, bound, ran, out, gateVars, clusterVars, isingVars,
                   assigned>>

\* The library call a statement starts with raises.  No cell has a try
\* statement, so the exception leaves the cell: the statement binds and prints
\* nothing, nothing after it runs, and the run stops there.
Raise ==
    /\ nb \in {"gate", "cluster"} /\ raised = "" /\ StartsWithLibraryCall(pc)
    /\ raised' = pc
    /\ pc' = "halted"
    /\ ran' = IF Len(ran) > 0 /\ ran[Len(ran)] = CellOf(pc)
              THEN ran ELSE Append(ran, CellOf(pc))
    /\ UNCHANGED <<nb, bound, out, gateVars, clusterVars, isingVars, assigned>>

-----------------------------------------------------------------------------
(* Notebook "gate": registers, gates and the simulator *)

Qubits == <<<<"q", 0>>, <<"q", 1>>>>
Clbits == <<<<"c", 0>>, <<"c", 1>>>>
NQubits == Len(Qubits)
Basis == 0..(2 ^ NQubits - 1)

\* circuit.h(qubit), circuit.cx(control, target), circuit.measure(qubit, clbit)
HGate(qb) == [name |-> "h", qargs |-> <<qb>>, cargs |-> <<>>]
CXGate(ctl, tgt) == [name |-> "cx", qargs |-> <<ctl, tgt>>, cargs |-> <<>>]
Measure(qb, cb) == [name |-> "measure", qargs |-> <<qb>>, cargs |-> <<cb>>]

\* circuit.measure(q, c) on whole registers: one measure per pair q[i], c[i].
MeasureRegisters(qreg, creg) ==
    [k \in 1..Len(qreg) |-> Measure(qreg[k], creg[k])]

\* The position of a bit in the circuit's list of bits, from 0.
IndexOf(bit, bits) == (CHOOSE k \in 1..Len(bits) : bits[k] = bit) - 1

Bit(b, t) == (b \div (2 ^ t)) % 2
Flip(b, t) == IF Bit(b, t) = 0 THEN b + 2 ^ t ELSE b - 2 ^ t

\* A state vector: amp[b] / sqrt(2)^k is the amplitude of basis state b, whose
\* bit t is qubit t.  All registers start in |0>.
ZeroState == [amp |-> [b \in Basis |-> IF b = 0 THEN 1 ELSE 0], k |-> 0]

\* ApplyH with the qubits counted from the other end.
ApplyHOtherEnd(s, t) ==
    [amp |-> [b \in Basis |->
                 IF Bit(b, NQubits - 1 - t) = 0
                 THEN s.amp[b] + s.amp[Flip(b, NQubits - 1 - t)]
                 ELSE s.amp[Flip(b, NQubits - 1 - t)] - s.amp[b]],
     k |-> s.k + 1]

\* H = 1/sqrt(2) [[1, 1], [1, -1]] on qubit t
ApplyH(s, t) ==
    [amp |-> [b \in Basis |->
                 IF Bit(b, t) = 0 THEN s.amp[b] + s.amp[Flip(b, t)]
                                  ELSE s.amp[Flip(b, t)] - s.amp[b]],
     k |-> s.k + 1]

\* ApplyCX with control and target exchanged.
ApplyCXSwapped(s, c, t) ==
    [amp |-> [b \in Basis |-> s.amp[IF Bit(b, t) = 1 THEN Flip(b, c) ELSE b]],
     k |-> s.k]

\* CNOT: X on qubit t where qubit c is 1
ApplyCX(s, c, t) ==
    [amp |-> [b \in Basis |-> s.amp[IF Bit(b, c) = 1 THEN Flip(b, t) ELSE b]],
     k |-> s.k]

ApplyGate(s, g) ==
    CASE g.name = "h" -> ApplyH(s, IndexOf(g.qargs[1], Qubits))
      [] g.name = "cx" -> ApplyCX(s, IndexOf(g.qargs[1], Qubits),
                                      IndexOf(g.qargs[2], Qubits))
      [] OTHER -> s

RECURSIVE Evolve(_, _)
\* The state the gates of instrs, applied in order, take s to.
Evolve(instrs, s) ==
    IF instrs = <<>> THEN s
    ELSE Evolve(Tail(instrs), ApplyGate(s, Head(instrs)))

StateOf(circ) == Evolve(circ, ZeroState)

\* The classical register after the measurements of circ read basis state b.
Memory(circ, b) ==
    [m \in 0..(Len(Clbits) - 1) |->
        IF \E k \in 1..Len(circ) :
              circ[k].name = "measure" /\ IndexOf(circ[k].cargs[1], Clbits) = m
        THEN LET k == CHOOSE k \in 1..Len(circ) :
                        circ[k].name = "measure"
                        /\ IndexOf(circ[k].cargs[1], Clbits) = m
             IN  Bit(b, IndexOf(circ[k].qargs[1], Qubits))
        ELSE 0]

\* The key of get_counts: the classical bits, c[1] first.
KeyOf(mem) ==
    IF mem[1] = 0 THEN (IF mem[0] = 0 THEN "00" ELSE "01")
                  ELSE (IF mem[0] = 0 THEN "10" ELSE "11")

\* The outcomes one shot of circ can record: those of the basis states that
\* have a non-zero amplitude when the measurements are made.
ShotOutcomes(circ) ==
    {KeyOf(Memory(circ, b)) : b \in {x \in Basis : StateOf(circ).amp[x] # 0}}

RECURSIVE DepthFrom(_, _, _)
\* The depth of a list of instructions, given the wires each one touches: an
\* instruction sits one level past the deepest of its wires.
DepthFrom(wireSets, level, k) ==
    IF k > Len(wireSets) THEN 0
    ELSE LET here == 1 + (IF wireSets[k] = {} THEN 0
                         ELSE LET top == CHOOSE x \in wireSets[k] :
                                           \A y \in wireSets[k] : level[y] <= level[x]
                              IN  level[top])
             next == [x \in DOMAIN level |->
                        IF x \in wireSets[k] THEN here ELSE level[x]]
         IN  Max(here, DepthFrom(wireSets, next, k + 1))

CircuitWires(g) == Range(g.qargs) \cup Range(g.cargs)
\* circuit.depth()
Depth(circ) ==
    DepthFrom([k \in 1..Len(circ) |-> CircuitWires(circ[k])],
              [x \in Range(Qubits) \cup Range(Clbits) |-> 0], 1)

\* AssembleInstruction for a backend whose basis has no h: h becomes u2.
AssembleInstructionToBasis(g) ==
    IF g.name = "measure"
    THEN [name |-> g.name,
          qubits |-> [k \in 1..Len(g.qargs) |-> IndexOf(g.qargs[k], Qubits)],
          memory |-> [k \in 1..Len(g.cargs) |-> IndexOf(g.cargs[k], Clbits)]]
    ELSE [name |-> IF g.name = "h" THEN "u2" ELSE g.name,
          qubits |-> [k \in 1..Len(g.qargs) |-> IndexOf(g.qargs[k], Qubits)]]

\* One instruction of the assembled experiment: the name and the qubits'
\* indices, and for a measurement the memory slots.
AssembleInstruction(g) ==
    IF g.name = "measure"
    THEN [name |-> g.name,
          qubits |-> [k \in 1..Len(g.qargs) |-> IndexOf(g.qargs[k], Qubits)],
          memory |-> [k \in 1..Len(g.cargs) |-> IndexOf(g.cargs[k], Clbits)]]
    ELSE [name |-> g.name,
          qubits |-> [k \in 1..Len(g.qargs) |-> IndexOf(g.qargs[k], Qubits)]]

\* assemble(circuit, backend): the simulator takes the instructions as they are.
Assemble(circ) == [k \in 1..Len(circ) |-> AssembleInstruction(circ[k])]

CompiledWires(d) ==
    {<<"q", x>> : x \in Range(d.qubits)}
    \cup (IF d.name = "measure" THEN {<<"c", x>> : x \in Range(d.memory)} ELSE {})
\* The depth of an assembled instruction list.
CompiledDepth(instrs) ==
    DepthFrom([k \in 1..Len(instrs) |-> CompiledWires(instrs[k])],
              [x \in Range(Qubits) \cup Range(Clbits) |-> 0], 1)

\* Cell 1: q = QuantumRegister(2); c = ClassicalRegister(2);
\* circuit = QuantumCircuit(q, c); circuit.h(q[0]); circuit.cx(q[0], q[1]);
\* circuit_drawer(circuit)
DefineCircuit ==
    /\ nb = "gate" /\ pc = "g1"
    /\ circuit' = <<HGate(Qubits[1]), CXGate(Qubits[1], Qubits[2])>>
    /\ out' = Append(out, "drawing")
    /\ Goto("g2")
    /\ UNCHANGED <<nb, raised, assigned, counts, shots_done, compiled_circuit, clusterVars, isingVars>>

\* Cell 2: circuit.measure(q, c); circuit_drawer(circuit)
AddMeasurement ==
    /\ nb = "gate" /\ pc = "g2"
    /\ circuit' = circuit \o MeasureRegisters(Qubits, Clbits)
    /\ out' = Append(out, "drawing")
    /\ Goto("g3")
    /\ UNCHANGED <<nb, raised, assigned, counts, shots_done, compiled_circuit, clusterVars, isingVars>>

\* Cell 3: backend = Aer.get_backend('qasm_simulator');
\* job = execute(circuit, backend, shots = 100)
Execute ==
    /\ nb = "gate" /\ pc = "g3"
    /\ counts' = <<>>
    /\ shots_done' = 0
    /\ Goto("g3_shot")
    /\ UNCHANGED <<nb, raised, assigned, out, circuit, compiled_circuit, clusterVars, isingVars>>

\* One shot of the job: the simulator runs the circuit from |0..0>, measures,
\* and counts the outcome.
RunShot ==
    /\ nb = "gate" /\ pc = "g3_shot"
    /\ shots_done < Shots
    /\ \E key \in ShotOutcomes(circuit) :
          counts' = IF key \in DOMAIN counts
                    THEN [counts EXCEPT ![key] = @ + 1]
                    ELSE counts @@ (key :> 1)
    /\ shots_done' = shots_done + 1
    /\ UNCHANGED <<nb, raised, assigned, pc, bound, ran, out, circuit, compiled_circuit,
                   clusterVars, isingVars>>

\* Cell 3, last line: plot_histogram(job.result().get_counts(circuit))
PlotHistogram ==
    /\ nb = "gate" /\ pc = "g3_shot"
    /\ shots_done = Shots
    /\ out' = Append(out, "histogram")
    /\ Goto("g4")
    /\ UNCHANGED <<nb, raised, assigned, gateVars, clusterVars, isingVars>>

\* Cell 4: compiled_circuit = assemble(circuit, backend);
\* compiled_circuit.as_dict()['experiments'][0]['instructions']
AssembleCircuit ==
    /\ nb = "gate" /\ pc = "g4"
    /\ compiled_circuit' = Assemble(circuit)
    /\ out' = Append(out, "instructions")
    /\ Goto("g_done")
    /\ UNCHANGED <<nb, raised, assigned, circuit, counts, shots_done, clusterVars, isingVars>>

GateNext ==
    \/ DefineCircuit
    \/ AddMeasurement
    \/ Execute
    \/ RunShot
    \/ PlotHistogram
    \/ AssembleCircuit

-----------------------------------------------------------------------------
(* Notebook "cluster": the data, the distance matrix, QAOA and the annealer *)

\* The streams of n draws, each in 0..RandUnits-1, that are explored: at most
\* one draw is not 0, and it is at most noise.
Streams(n, noise) ==
    {[k \in 1..n |-> 0]}
    \cup {[k \in 1..n |-> IF k = p THEN v ELSE 0] :
             p \in 1..n, v \in 1..Min(noise, RandUnits - 1)}

\* np.random.rand(nrows, ncols) / 5 in units of 0.05: the next nrows * ncols
\* draws of the stream, row by row.
RandOver5(stream, nrows, ncols) ==
    [r \in 0..(nrows - 1) |-> [x \in 0..(ncols - 1) |-> stream[r * ncols + x + 1]]]

\* (0.6, 0.1, 0.05) in units of 0.05
Class2Offset == <<12, 2, 1>>

\* np.concatenate((a, b)) of two arrays of rows
Concatenate(a, b) ==
    LET na == Cardinality(DOMAIN a)
        nb2 == Cardinality(DOMAIN b)
    IN  [r \in 0..(na + nb2 - 1) |-> IF r < na THEN a[r] ELSE b[r - na]]

\* np.linalg.norm(v) of a vector v
Norm(v) == ISqrt(SumOver([x \in DOMAIN v |-> v[x] * v[x]], DOMAIN v))

\* Distance as the difference of the two norms.
DistanceOfNorms(d, i, j) == Norm(d[i]) - Norm(d[j])

\* np.linalg.norm(data[i] - data[j])
Distance(d, i, j) == Norm([x \in DOMAIN d[i] |-> d[i][x] - d[j][x]])

\* Product with the second index running slowest.
ProductColumnMajor(n) == [k \in 1..(n * n) |-> <<(k - 1) % n, (k - 1) \div n>>]

\* list(itertools.product(range(n), range(n)))
Product(n) == [k \in 1..(n * n) |-> <<(k - 1) \div n, (k - 1) % n>>]

\* np.zeros((n, n))
Zeros(n) == [i \in 0..(n - 1) |-> [j \in 0..(n - 1) |-> 0]]

Nodes == 0..(NInstances - 1)
\* The spin assignments of a set of variables.
SpinAssignments(variables) == [variables -> {-1, 1}]

\* Couplings with the sign of the weights turned.
CouplingsNegated(wm, n) ==
    [e \in {x \in (0..(n - 1)) \X (0..(n - 1)) : x[1] < x[2]} |-> 0 - wm[e[1]][e[2]]]

\* for i in range(n): for j in range(i+1, n): J[(i, j)] = w[i, j]
Couplings(wm, n) ==
    [e \in {x \in (0..(n - 1)) \X (0..(n - 1)) : x[1] < x[2]} |-> wm[e[1]][e[2]]]

\* for i in range(n): h[i] = 0
Fields(n) == [i \in 0..(n - 1) |-> 0]

\* dimod.BinaryQuadraticModel(h, J, 0.0, dimod.SPIN)
BinaryQuadraticModel(linear, quadratic, offset, vartype) ==
    [linear |-> linear, quadratic |-> quadratic, offset |-> offset,
     vartype |-> vartype]

\* The variables of a model: those given a field and those a coupling names.
Variables(m) ==
    DOMAIN m.linear
    \cup {e[1] : e \in DOMAIN m.quadratic} \cup {e[2] : e \in DOMAIN m.quadratic}

\* The values of every vartype taken to be those of dimod.BINARY.
VartypeValuesBinary(vartype) == {0, 1}

\* The values a variable of the vartype takes: dimod.SPIN is {-1, +1},
\* dimod.BINARY is {0, 1}.
VartypeValues(vartype) == IF vartype = "SPIN" THEN {-1, 1} ELSE {0, 1}

\* The energy the model gives a sample: offset + sum h_i s_i + sum J_ij s_i s_j
Energy(m, s) ==
    m.offset
    + SumOver([i \in DOMAIN m.linear |-> m.linear[i] * s[i]], DOMAIN m.linear)
    + SumOver([e \in DOMAIN m.quadratic |-> m.quadratic[e] * s[e[1]] * s[e[2]]],
              DOMAIN m.quadratic)

\* The orders response.data() can yield the reads in: sorted by energy, reads
\* of equal energy in any order.
SortedOrders(m, resp) ==
    LET energy == [k \in 1..Len(resp) |-> Energy(m, resp[k])]
    IN  {f \in [1..Len(resp) -> 1..Len(resp)] :
            /\ \A a, b \in 1..Len(resp) : a # b => f[a] # f[b]
            /\ \A a, b \in 1..Len(resp) : a < b => energy[f[a]] <= energy[f[b]]}

\* The weight of the cut the spins s induce in the graph wm: the sum of
\* wm[i][j] over i in V1 (spin +1) and j in V2 (spin -1).
CutCost(wm, s) ==
    LET V1 == {i \in DOMAIN s : s[i] = 1}
        V2 == {i \in DOMAIN s : s[i] = -1}
    IN  SumOver([e \in V1 \X V2 |-> wm[e[1]][e[2]]], V1 \X V2)

\* IsingSum with the sign inside the bracket turned.
IsingSumPlus(wm, s) ==
    SumOver([e \in (DOMAIN s) \X (DOMAIN s) |->
                wm[e[1]][e[2]] * (1 + s[e[1]] * s[e[2]])],
            (DOMAIN s) \X (DOMAIN s))

\* Four times the Ising expression of the cost: the sum over all ordered pairs
\* (i, j) of wm[i][j] * (1 - s[i] * s[j]).
IsingSum(wm, s) ==
    SumOver([e \in (DOMAIN s) \X (DOMAIN s) |->
                wm[e[1]][e[2]] * (1 - s[e[1]] * s[e[2]])],
            (DOMAIN s) \X (DOMAIN s))

\* Cell 1: n_instances = 4; class_1 = np.random.rand(n_instances//2, 3)/5;
\* class_2 = (0.6, 0.1, 0.05) + np.random.rand(n_instances//2, 3)/5;
\* data = np.concatenate((class_1, class_2)); colors; scatter plot
GenerateData ==
    /\ nb = "cluster" /\ pc = "k1"
    /\ LET half == NInstances \div 2
           first == RandOver5(rng, half, Dim)
           rest == SubSeq(rng, half * Dim + 1, Len(rng))
           second == RandOver5(rest, half, Dim)
           shifted == [r \in DOMAIN second |->
                         [x \in DOMAIN second[r] |-> Class2Offset[x + 1] + second[r][x]]]
       IN  /\ n_instances' = NInstances
           /\ class_1' = first
           /\ class_2' = shifted
           /\ data' = Concatenate(first, shifted)
           /\ rng' = SubSeq(rest, half * Dim + 1, Len(rest))
    /\ out' = Append(out, "scatter")
    /\ Goto("k2")
    /\ UNCHANGED <<nb, raised, assigned, gateVars, w, it, J, h, model, response, rows, isingVars>>

\* Cell 2: import itertools; w = np.zeros((n_instances, n_instances));
\* the for statement creates the iterator over the index pairs
InitW ==
    /\ nb = "cluster" /\ pc = "k2"
    /\ w' = Zeros(n_instances)
    /\ it' = 0
    /\ Goto("k2_loop")
    /\ UNCHANGED <<nb, raised, assigned, out, gateVars, rng, n_instances, class_1, class_2, data,
                   J, h, model, response, rows, isingVars>>

\* One iteration: i, j = next(iterator); w[i, j] = np.linalg.norm(data[i]-data[j])
LoopStep ==
    /\ nb = "cluster" /\ pc = "k2_loop"
    /\ it < Len(Product(n_instances))
    /\ LET i == Product(n_instances)[it + 1][1]
           j == Product(n_instances)[it + 1][2]
       IN  /\ w' = [w EXCEPT ![i][j] = Distance(data, i, j)]
           /\ assigned' = Append(assigned, <<i, j>>)
    /\ it' = it + 1
    /\ bound' = bound \cup Binds(pc)
    /\ ran' = ran
    /\ UNCHANGED <<nb, raised, pc, out, gateVars, rng, n_instances, class_1, class_2,
                   data, J, h, model, response, rows, isingVars>>

\* Cell 2, after the loop: print(w)
PrintW ==
    /\ nb = "cluster" /\ pc = "k2_loop"
    /\ it = Len(Product(n_instances))
    /\ out' = Append(out, "w")
    /\ Goto("k3")
    /\ UNCHANGED <<nb, raised, assigned, gateVars, clusterVars, isingVars>>

\* Cell 3: print(list(itertools.product(*[range(n_instances)]*2)))
PrintPairs ==
    /\ nb = "cluster" /\ pc = "k3"
    /\ out' = Append(out, "pairs")
    /\ Goto("k4")
    /\ UNCHANGED <<nb, raised, assigned, gateVars, clusterVars, isingVars>>

\* Cell 4: the imports from qiskit.aqua
ImportAqua ==
    /\ nb = "cluster" /\ pc = "k4"
    /\ Goto("k5")
    /\ UNCHANGED <<nb, raised, assigned, out, gateVars, clusterVars, isingVars>>

\* Cell 5: qubit_operators, offset = max_cut.get_max_cut_qubitops(w); p = 1;
\* optimizer = COBYLA(); qaoa = QAOA(qubit_operators, optimizer, p, ...)
BuildQAOA ==
    /\ nb = "cluster" /\ pc = "k5"
    /\ Goto("k6")
    /\ UNCHANGED <<nb, raised, assigned, out, gateVars, clusterVars, isingVars>>

\* Cell 6: backend = get_aer_backend('statevector_simulator');
\* quantum_instance = QuantumInstance(backend, shots = 1)
QAOASetup ==
    /\ nb = "cluster" /\ pc = "k6"
    /\ Goto("k6_run")
    /\ UNCHANGED <<nb, raised, assigned, out, gateVars, clusterVars, isingVars>>

\* Cell 6: result = qaoa.run(quantum_instance)
QAOARun ==
    /\ nb = "cluster" /\ pc = "k6_run"
    /\ Goto("k6_sol")
    /\ UNCHANGED <<nb, raised, assigned, out, gateVars, clusterVars, isingVars>>

\* Cell 6: x = max_cut.sample_most_likely(...); graph_solution = ...; and the
\* four print statements
ReportSolution ==
    /\ nb = "cluster" /\ pc = "k6_sol"
    /\ out' = out \o <<"energy:", "maxcut objective:", "solution:",
                       "solution objective:">>
    /\ Goto("k7")
    /\ UNCHANGED <<nb, raised, assigned, gateVars, clusterVars, isingVars>>

\* Cell 7: import dimod; the loops that fill J and h;
\* model = dimod.BinaryQuadraticModel(h, J, 0.0, dimod.SPIN);
\* sampler = dimod.SimulatedAnnealingSampler()
BuildModel ==
    /\ nb = "cluster" /\ pc = "k7"
    /\ J' = Couplings(w, n_instances)
    /\ h' = Fields(n_instances)
    /\ model' = BinaryQuadraticModel(h', J', 0, "SPIN")
    /\ Goto("k7_sample")
    /\ UNCHANGED <<nb, raised, assigned, out, gateVars, rng, n_instances, class_1, class_2, data,
                   w, it, response, rows, isingVars>>

\* Cell 7: response = sampler.sample(model, num_reads = ...): every read is
\* some assignment of a value of the model's vartype to each of its variables.
Sample ==
    /\ nb = "cluster" /\ pc = "k7_sample"
    /\ response' \in [1..MaxReads ->
                         [Variables(model) -> VartypeValues(model.vartype)]]
    /\ Goto("k7_print")
    /\ UNCHANGED <<nb, raised, assigned, out, gateVars, rng, n_instances, class_1, class_2, data,
                   w, it, J, h, model, rows, isingVars>>

\* Cell 7: print("Energy of samples:"); for solution in response.data():
\* print("Energy:", solution.energy, "Sample:", solution.sample)
PrintSamples ==
    /\ nb = "cluster" /\ pc = "k7_print"
    /\ \E f \in SortedOrders(model, response) :
          rows' = [k \in 1..Len(response) |->
                     [sample |-> response[f[k]],
                      energy |-> Energy(model, response[f[k]])]]
    /\ out' = out \o <<"Energy of samples:">>
                  \o [k \in 1..Len(response) |-> "Energy: Sample:"]
    /\ Goto("k_done")
    /\ UNCHANGED <<nb, raised, assigned, gateVars, rng, n_instances, class_1, class_2, data,
                   w, it, J, h, model, response, isingVars>>

ClusterNext ==
    \/ GenerateData
    \/ InitW
    \/ LoopStep
    \/ PrintW
    \/ PrintPairs
    \/ ImportAqua
    \/ BuildQAOA
    \/ QAOASetup
    \/ QAOARun
    \/ ReportSolution
    \/ BuildModel
    \/ Sample
    \/ PrintSamples

-----------------------------------------------------------------------------
(* The cost of a cut as an Ising expression, evaluated on any weight matrix *)

\* The symmetric matrices over Nodes with zero diagonal and entries 0..MaxWeight.
SymmetricWeights ==
    LET pairs == {e \in Nodes \X Nodes : e[1] < e[2]}
    IN  {[i \in Nodes |-> [j \in Nodes |->
            IF i = j THEN 0 ELSE u[<<Min(i, j), Max(i, j)>>]]] :
         u \in [pairs -> 0..MaxWeight]}

\* sum over i in V1, j in V2 of w_ij
EvalCut ==
    /\ nb = "ising" /\ pc = "i_cut"
    /\ cut' = CutCost(w, sigma)
    /\ pc' = "i_ising"
    /\ UNCHANGED <<nb, raised, assigned, bound, ran, out, gateVars, clusterVars, sigma, ising>>

\* 1/4 sum over i, j of w_ij (1 - sigma_i sigma_j), kept times four
EvalIsing ==
    /\ nb = "ising" /\ pc = "i_ising"
    /\ ising' = IsingSum(w, sigma)
    /\ pc' = "i_done"
    /\ UNCHANGED <<nb, raised, assigned, bound, ran, out, gateVars, clusterVars, sigma, cut>>

IsingNext ==
    \/ EvalCut
    \/ EvalIsing

-----------------------------------------------------------------------------
(* Specifications *)

\* What every variable holds before a cell has run.
Blank ==
    /\ bound = {} /\ ran = <<>> /\ out = <<>>
    /\ circuit = <<>> /\ counts = <<>> /\ shots_done = 0 /\ compiled_circuit = <<>>
    /\ n_instances = 0 /\ class_1 = <<>> /\ class_2 = <<>> /\ data = <<>>
    /\ it = 0 /\ J = <<>> /\ h = <<>> /\ model = <<>>
    /\ response = <<>> /\ rows = <<>>
    /\ cut = 0 /\ ising = 0
    /\ raised = "" /\ assigned = <<>>

\* A fresh kernel opens one of the two notebooks.
Init ==
    /\ Blank
    /\ \/ nb = "gate" /\ pc = "g1" /\ rng = <<>>
       \/ nb = "cluster" /\ pc = "k1"
          /\ rng \in Streams(NInstances * Dim, MaxNoise)
    /\ w = <<>> /\ sigma = <<>>

Next ==
    \/ GateNext
    \/ ClusterNext
    \/ Raise

Spec == Init /\ [][Next]_vars

\* The two expressions of the cost of a cut, on every small weight matrix.
InitIsing ==
    /\ Blank
    /\ nb = "ising" /\ pc = "i_cut" /\ rng = <<>>
    /\ w \in SymmetricWeights
    /\ sigma \in SpinAssignments(Nodes)

SpecIsing == InitIsing /\ [][IsingNext]_vars

-----------------------------------------------------------------------------
(* Properties *)

\* The distance loop of "cluster" has run to its end.
LoopFinished ==
    /\ nb = "cluster"
    /\ "w" \in bound
    /\ it = Len(Product(n_instances))

\* C1: once the pairwise-distance loop has finished, w is symmetric with a
\* zero diagonal: w[i][j] = w[j][i] and w[i][i] = 0 for all i, j below
\* n_instances.
C1_WSymmetricZeroDiagonal ==
    LoopFinished =>
        \A i, j \in 0..(n_instances - 1) : w[i][j] = w[j][i] /\ w[i][i] = 0

\* The loop has finished on data whose distances are not all alike.
C1_Witness ==
    LoopFinished /\ w[0][1] > 0 /\ w[0][2] > w[0][1]

\* C2: whatever the number of shots run so far, the counts of the measured
\* circuit H(q0); CX(q0, q1) hold no outcome but 00 and 11: 01 and 10 never
\* appear.
C2_OnlyCorrelatedOutcomes ==
    nb = "gate" =>
        /\ \A key \in DOMAIN counts : key \in {"00", "11"}
        /\ SumOver(counts, DOMAIN counts) = shots_done

\* All shots are done and both 00 and 11 were recorded.
C2_Witness ==
    /\ nb = "gate" /\ shots_done = Shots
    /\ DOMAIN counts = {"00", "11"}

\* C3: for every symmetric weight matrix with zero diagonal and every spin
\* assignment, the cost of the cut, the sum of w_ij over i in V1 and j in V2,
\* is a quarter of the sum over all ordered pairs of w_ij (1 - sigma_i sigma_j).
C3_CutCostIsIsingCost ==
    (nb = "ising" /\ pc = "i_done") => 4 * cut = ising

\* Both expressions are evaluated on a cut that separates nodes and has weight.
C3_Witness ==
    nb = "ising" /\ pc = "i_done" /\ cut > 0 /\ sigma[0] # sigma[1]

\* The annealing model has just been built from w.
ModelBuilt == nb = "cluster" /\ pc = "k7_sample"

\* C4: the model built from w has h[i] = 0, J[(i, j)] = w[i][j] for i < j,
\* offset 0 and SPIN variables, its energy is the sum of J_ij s_i s_j, and a
\* spin assignment has minimum energy exactly when the partition it induces is
\* a maximum-weight cut of w.
C4_ModelEncodesMaxCut ==
    ModelBuilt =>
        LET S == SpinAssignments(0..(n_instances - 1))
            E == [s \in S |-> Energy(model, s)]
            C == [s \in S |-> CutCost(w, s)]
        IN  /\ model.vartype = "SPIN" /\ model.offset = 0
            /\ \A i \in 0..(n_instances - 1) : model.linear[i] = 0
            /\ \A s \in S :
                  E[s] = SumOver([e \in DOMAIN J |-> J[e] * s[e[1]] * s[e[2]]],
                                 DOMAIN J)
            /\ \A s \in S : (\A t \in S : E[s] <= E[t]) <=> (\A t \in S : C[s] >= C[t])

\* The model is built on a graph with edges of different weights.
C4_Witness ==
    ModelBuilt /\ J[<<0, 1>>] > 0 /\ J[<<0, 2>>] > J[<<0, 1>>]

\* C6: the generated data set has two classes of five instances each: the
\* first five rows of data are class 1, the second five are class 2.
C6_FiveInstancesPerClass ==
    (nb = "cluster" /\ "data" \in bound) =>
        /\ Cardinality(DOMAIN class_1) = 5
        /\ Cardinality(DOMAIN class_2) = 5
        /\ DOMAIN data = 0..9
        /\ \A r \in 0..4 : data[r] = class_1[r] /\ data[r + 5] = class_2[r]

\* C7: in the first sample the print loop shows, the first five instances carry
\* the same spin and every other instance carries the opposite spin.
C7_FirstSampleGroupsFirstFive ==
    (nb = "cluster" /\ pc = "k_done") =>
        LET s == rows[1].sample
        IN  /\ \A i \in 0..4 : i \in DOMAIN s /\ s[i] = s[0]
            /\ \A i \in DOMAIN s \ (0..4) : s[i] = 0 - s[0]

\* C8: assembling the measured circuit for the simulator adds no instruction
\* and no depth: the experiment's instructions are h on qubit 0, cx on qubits
\* (0, 1), measure qubit 0 into memory 0, measure qubit 1 into memory 1.
C8_AssembleKeepsInstructions ==
    (nb = "gate" /\ pc = "g_done") =>
        /\ compiled_circuit =
              <<[name |-> "h", qubits |-> <<0>>],
                [name |-> "cx", qubits |-> <<0, 1>>],
                [name |-> "measure", qubits |-> <<0>>, memory |-> <<0>>],
                [name |-> "measure", qubits |-> <<1>>, memory |-> <<1>>]>>
        /\ Len(compiled_circuit) = Len(circuit)
        /\ CompiledDepth(compiled_circuit) <= Depth(circuit)

\* The circuit has been assembled.
C8_Witness ==
    nb = "gate" /\ pc = "g_done" /\ Len(compiled_circuit) > 0 /\ Depth(circuit) = 3

\* C9: the registers start in |00>, and once H on qubit 0 and CX from qubit 0
\* to qubit 1 are in the circuit its state is (|00> + |11>)/sqrt(2): 00 and 11
\* have amplitude 1/sqrt(2), 01 and 10 have amplitude 0.
C9_BellStatePrepared ==
    (nb = "gate" /\ "circuit" \in bound) =>
        /\ StateOf(<<>>) = [amp |-> [b \in Basis |-> IF b = 0 THEN 1 ELSE 0], k |-> 0]
        /\ SubSeq(circuit, 1, 2) = <<HGate(Qubits[1]), CXGate(Qubits[1], Qubits[2])>>
        /\ StateOf(circuit).k = 1
        /\ StateOf(circuit).amp[0] = 1 /\ StateOf(circuit).amp[3] = 1
        /\ StateOf(circuit).amp[1] = 0 /\ StateOf(circuit).amp[2] = 0

\* The circuit holds exactly the two gates.
C9_Witness ==
    nb = "gate" /\ pc = "g2" /\ Len(circuit) = 2

\* C10: the cells of a notebook run one at a time in document order, and every
\* name the statement about to run reads was bound by a statement before it.
C10_CellsInOrderNamesBound ==
    nb \in {"gate", "cluster"} =>
        /\ Len(ran) <= Len(CellOrder(nb))
        /\ ran = SubSeq(CellOrder(nb), 1, Len(ran))
        /\ pc \notin {"g_done", "k_done", "halted"} =>
              /\ CellOf(pc) \in {Len(ran), Len(ran) + 1}
              /\ Reads(pc) \subseteq bound
        /\ pc \in {"g_done", "k_done"} => ran = CellOrder(nb)

\* A notebook has run to its last cell, which read names of earlier cells.
C10_Witness ==
    nb = "cluster" /\ pc = "k_done" /\ ran = <<1, 2, 3, 4, 5, 6, 7>>
    /\ {"n_instances", "w"} \subseteq bound

\* The four result lines of cell 6 of "cluster".
ResultLines == {"energy:", "maxcut objective:", "solution:", "solution objective:"}

\* C11: no cell handles errors.  When a call raises, the statement it raised in
\* binds and prints nothing and the exception ends the cell: from then on no
\* statement executes.  So after qaoa.run has raised, result is not bound and
\* none of the four result lines is printed; after sampler.sample has raised,
\* there is no response and no "Energy of samples:" line.
C11_RaiseEndsCell ==
    /\ [](raised = "k6_run" =>
            /\ Range(out) \cap ResultLines = {}
            /\ {"result", "x", "graph_solution"} \cap bound = {})
    /\ [](raised = "k7_sample" =>
            /\ "Energy of samples:" \notin Range(out)
            /\ response = <<>> /\ "response" \notin bound)
    /\ [][/\ raised # "" => UNCHANGED vars
          /\ raised = "" /\ raised' # "" =>
                /\ raised' = pc /\ pc' = "halted"
                /\ UNCHANGED <<bound, out, gateVars, clusterVars, assigned>>]_vars

\* qaoa.run has raised: cell 6 started, and the run ended before its prints.
C11_Witness ==
    /\ raised = "k6_run" /\ pc = "halted"
    /\ ran = <<1, 2, 3, 4, 5, 6>>
    /\ out = <<"scatter", "w", "pairs">>

\* s gives each node 0..n-1 exactly one value, and that value is -1 or +1.
CompleteSpinVector(s, n) ==
    /\ DOMAIN s = 0..(n - 1)
    /\ \A i \in 0..(n - 1) : s[i] \in {-1, 1}

\* C12: every sample the annealing sampler returns, and so every sample the
\* print loop shows, is a complete spin-assignment vector over the nodes
\* 0..n_instances-1.
C12_SamplesAreCompleteSpinVectors ==
    nb = "cluster" =>
        /\ \A k \in 1..Len(response) : CompleteSpinVector(response[k], n_instances)
        /\ \A k \in 1..Len(rows) : CompleteSpinVector(rows[k].sample, n_instances)

\* The samples were printed, and one of them has nodes on both sides.
C12_Witness ==
    /\ nb = "cluster" /\ pc = "k_done" /\ Len(rows) = Len(response)
    /\ Len(response) > 0
    /\ \E k \in 1..Len(rows) : \E i, j \in DOMAIN rows[k].sample :
          rows[k].sample[i] = 1 /\ rows[k].sample[j] = -1

\* Pair a comes before pair b in row-major order.
RowMajorBefore(a, b) == a[1] < b[1] \/ (a[1] = b[1] /\ a[2] < b[2])

\* C13: the distance loop visits the ordered pairs (i, j) of
\* 0..n_instances-1 x 0..n_instances-1 in row-major order: each pair it
\* assigns comes after the one before, so none is assigned twice.  It never
\* runs more than n_instances^2 iterations, it goes on while pairs are left,
\* and once they are exhausted it has run n_instances^2 iterations that cover
\* every pair, so every entry of w was assigned exactly once, and the cell
\* moves on to print(w).
C13_LoopVisitsEveryPairOnce ==
    nb = "cluster" =>
        LET n == n_instances
            pairs == (0..(n - 1)) \X (0..(n - 1))
        IN  /\ Len(assigned) = it /\ it <= n * n
            /\ \A k \in 1..Len(assigned) : assigned[k] \in pairs
            /\ \A k \in 1..(Len(assigned) - 1) :
                  RowMajorBefore(assigned[k], assigned[k + 1])
            /\ pc = "k2_loop" /\ it < n * n => ENABLED LoopStep /\ ~ENABLED PrintW
            /\ pc = "k2_loop" /\ it = n * n => ENABLED PrintW /\ ~ENABLED LoopStep
            /\ LoopFinished =>
                  /\ Len(assigned) = n * n
                  /\ Range(assigned) = pairs
                  /\ Len(assigned) = Cardinality(pairs)

\* The loop has ended after 16 iterations, from (0, 0) to (3, 3).
C13_Witness ==
    /\ LoopFinished /\ pc = "k3" /\ raised = ""
    /\ Len(assigned) = 16
    /\ assigned[1] = <<0, 0>> /\ assigned[2] = <<0, 1>> /\ assigned[5] = <<1, 0>>
    /\ assigned[16] = <<3, 3>>

=============================================================================
